---- MODULE Spec2Model ----
(***************************************************************************)
(* Observation scoring engine of the inspection record-keeping app         *)
(* (src/app.py): save_observation, recalculate_all, save_premise,          *)
(* save_location, save_parameters, the "premises" table of the store and   *)
(* the local premises.json file that save_observation reads.               *)
(*                                                                         *)
(* Numbers with two decimals (every value the code passes through          *)
(* round(x, 2)) are kept in hundredths: 20.0 is 2000, 100.0 is 10000.      *)
(* Intensities, magnitudes, weights and policy maxima are plain integers.  *)
(* round() is round-half-to-even on the exact quotient.                    *)
(*                                                                         *)
(* Columns of a "premises" row that no request has written yet hold the    *)
(* defaults [] (observations) and 0 (the derived numbers).                 *)
(***************************************************************************)
EXTENDS Integers, Sequences, FiniteSets, TLC

\* Bound of the model: the number of requests a run handles.
MaxOps == 3

Null == "null"

PremiseIds == {1, 2}
ReqIds == {1, 2}
Roles == {"none", "user", "admin"}
DistrictNames == {"Masasi", "Newala"}
\* data.get('district'): a district name, or absent.
FilterValues == DistrictNames \cup {Null}

------------------------------------------------------------------------------
(* Arithmetic                                                              *)

RECURSIVE SumSeq(_)
SumSeq(s) == IF s = <<>> THEN 0 ELSE Head(s) + SumSeq(Tail(s))

RECURSIVE SumSet(_, _)
SumSet(S, f) ==
    IF S = {} THEN 0
    ELSE LET x == CHOOSE y \in S : TRUE
         IN  f[x] + SumSet(S \ {x}, f)

MaxOf(S) == CHOOSE x \in S : \A y \in S : y <= x

Min2(a, b) == IF a <= b THEN a ELSE b
Max2(a, b) == IF a >= b THEN a ELSE b

\* round(a / b) for b # 0, ties to even (Python's round()); q is the floor
\* of the quotient and r / d its fractional part.
RoundDiv(a, b) ==
    LET n == IF b < 0 THEN 0 - a ELSE a
        d == IF b < 0 THEN 0 - b ELSE b
        q == n \div d
        r == n % d
    IN  IF 2 * r < d THEN q
        ELSE IF 2 * r > d THEN q + 1
        ELSE IF q % 2 = 0 THEN q ELSE q + 1

------------------------------------------------------------------------------
(* Scoring configuration (static/data/observation_parameters.json)         *)

ConfigA ==
    [parameters |-> [got   |-> [label |-> "GOT Medicines", intensity |-> 30],
                     unreg |-> [label |-> "Unregistered Medicines", intensity |-> 30]],
     weights    |-> [got   |-> [weight |-> 50, max_policy |-> 1000]],
     violation  |-> [non_conformance |-> 70, Pvi |-> 30]]

ConfigB ==
    [parameters |-> [got   |-> [label |-> "GOT Medicines", intensity |-> 10],
                     unreg |-> [label |-> "Unregistered Medicines", intensity |-> 30]],
     weights    |-> [got   |-> [weight |-> 25, max_policy |-> 1000]],
     violation  |-> [non_conformance |-> 50, Pvi |-> 50]]

\* The file with max_policy 0: total_policy_max is 0.
ConfigZeroPolicy == [ConfigA EXCEPT !.weights.got.max_policy = 0]

\* A file edited by hand, with a negative weight (save_parameters would turn
\* the value away; nothing checks the file when it is read).
ConfigNegativeWeight == [ConfigA EXCEPT !.weights.got.weight = 0 - 50]

\* A file without the section "parameters": save_parameters dumps the body
\* it received, and a body without that section passes its validation.
ConfigNoParameters ==
    [weights |-> ConfigA.weights, violation |-> ConfigA.violation]

\* obs_config.get('parameters', {})
ParametersOf(cfg) ==
    IF "parameters" \in DOMAIN cfg THEN cfg.parameters ELSE [k \in {} |-> 0]

------------------------------------------------------------------------------
(* Observation normaliser and score calculator of save_observation         *)

frontend_to_param(k) ==
    CASE k = "obsGot" -> "got"
      [] k = "obsUnreg" -> "unreg"
      [] k = "obsPersonnel" -> "personnel"
      [] k = "obsRequirements" -> "requirements"
      [] k = "obsUnregPremise" -> "unregPremise"
      [] k = "obsMedicalPractices" -> "medicalPractices"
      [] k = "obsDldmNotAllowed" -> "dldmNotAllowed"
      [] OTHER -> Null

Digits == {"0", "1", "2", "3", "4", "5", "6", "7", "8", "9"}

DigitVal(c) ==
    CASE c = "0" -> 0 [] c = "1" -> 1 [] c = "2" -> 2 [] c = "3" -> 3
      [] c = "4" -> 4 [] c = "5" -> 5 [] c = "6" -> 6 [] c = "7" -> 7
      [] c = "8" -> 8 [] c = "9" -> 9

IsDigit(c) == c \in Digits

RECURSIVE ParseInt(_, _)
ParseInt(s, acc) ==
    IF s = <<>> THEN acc ELSE ParseInt(Tail(s), 10 * acc + DigitVal(Head(s)))

\* int(''.join(filter(str.isdigit, str(raw_value)))), 0 when no digit is left.
\* A raw value is the sequence of its characters.
CleanValue(raw) == ParseInt(SelectSeq(raw, IsDigit), 0)

\* The loop over the submitted defect flags: labels, intensity and the
\* magnitudes kept, accumulated in submission order.
RECURSIVE NormalizeLoop(_, _, _, _)
NormalizeLoop(obs_data, defect_values, cfg, acc) ==
    IF obs_data = <<>> THEN acc
    ELSE
        LET obs_key   == Head(obs_data)
            param_key == frontend_to_param(obs_key)
            known     == param_key # Null /\ param_key \in DOMAIN cfg.parameters
            raw_value == IF obs_key \in DOMAIN defect_values
                         THEN defect_values[obs_key] ELSE <<>>
            next ==
                IF ~known THEN acc
                ELSE [obs_readable |-> Append(acc.obs_readable,
                                              cfg.parameters[param_key].label),
                      intensity |-> acc.intensity
                                    + cfg.parameters[param_key].intensity,
                      obs_values_saved |->
                          IF raw_value # <<>>
                          THEN [k \in DOMAIN acc.obs_values_saved \cup {param_key} |->
                                   IF k = param_key THEN CleanValue(raw_value)
                                   ELSE acc.obs_values_saved[k]]
                          ELSE acc.obs_values_saved]
        IN  NormalizeLoop(Tail(obs_data), defect_values, cfg, next)

EmptyValues == [k \in {} |-> 0]

\* obs_config["parameters"] of line 812 raises KeyError when the file has no
\* such section; the line is reached for a flag frontend_to_param knows, in
\* a submission without the "none" flag.
NormalizeRaises(sub, cfg) ==
    /\ ~sub.none
    /\ "parameters" \notin DOMAIN cfg
    /\ \E i \in 1..Len(sub.defects) : frontend_to_param(sub.defects[i]) # Null

\* A faulty variant of Normalize: the loop runs whatever the "none" flag.
NormalizeIgnoringNone(sub, cfg) ==
    NormalizeLoop(sub.defects, sub.defectValues,
                  [parameters |-> ParametersOf(cfg)],
                  [obs_readable |-> <<>>, intensity |-> 0,
                   obs_values_saved |-> EmptyValues])

\* Lines 805-825: nothing is accumulated when "none" is selected.
Normalize(sub, cfg) ==
    IF sub.none
    THEN [obs_readable |-> <<>>, intensity |-> 0, obs_values_saved |-> EmptyValues]
    ELSE NormalizeLoop(sub.defects, sub.defectValues, cfg,
                       [obs_readable |-> <<>>, intensity |-> 0,
                        obs_values_saved |-> EmptyValues])

ValueOf(values, k) == IF k \in DOMAIN values THEN values[k] ELSE 0

\* pvi_raw of save_observation, in hundredths: sum of value * weight / 100.
SavePviRaw(values, cfg) ==
    SumSet(DOMAIN cfg.weights,
           [k \in DOMAIN cfg.weights |-> ValueOf(values, k) * cfg.weights[k].weight])

\* total_policy_max, in hundredths: sum of max_policy * weight / 100.
TotalPolicyMax(cfg) ==
    SumSet(DOMAIN cfg.weights,
           [k \in DOMAIN cfg.weights |->
               cfg.weights[k].max_policy * cfg.weights[k].weight])

\* A faulty variant of AbsolutePvi: the ratio is not scaled to percent.
AbsolutePviFraction(pvi_raw, cfg) ==
    IF TotalPolicyMax(cfg) > 0
    THEN RoundDiv(pvi_raw * 100, TotalPolicyMax(cfg))
    ELSE 0

\* round(pvi_raw / total_policy_max * 100, 2) if total_policy_max > 0 else 0
AbsolutePvi(pvi_raw, cfg) ==
    IF TotalPolicyMax(cfg) > 0
    THEN RoundDiv(pvi_raw * 10000, TotalPolicyMax(cfg))
    ELSE 0

\* The observation record save_observation appends.
NewObservation(sub, cfg) ==
    LET n == Normalize(sub, cfg)
        pvi_raw == SavePviRaw(n.obs_values_saved, cfg)
    IN  [date |-> sub.date,
         observations |-> IF sub.none THEN <<"None">> ELSE n.obs_readable,
         defect_values |-> n.obs_values_saved,
         intensity |-> n.intensity,
         pvi_raw |-> pvi_raw,
         absolute_pvi |-> AbsolutePvi(pvi_raw, cfg)]

------------------------------------------------------------------------------
(* Premise rows                                                            *)

StaticFields == {"name", "category", "region", "district", "location",
                 "latitude", "longitude"}

Static(row) == [f \in StaticFields |-> row[f]]

\* A row as save_premise inserts it: the derived columns hold their defaults.
NewRow(id, st) ==
    [id |-> id,
     name |-> st.name, category |-> st.category, region |-> st.region,
     district |-> st.district, location |-> st.location,
     latitude |-> st.latitude, longitude |-> st.longitude,
     observations |-> <<>>,
     total_intensity |-> 0, average_intensity |-> 0,
     total_pvi_raw |-> 0, average_pvi_raw |-> 0,
     total_absolute_pvi |-> 0, average_absolute_pvi |-> 0,
     relative_pvi |-> 0, violation_rate |-> 0, relative_violation_rate |-> 0]

\* The premise dict save_observation builds when the id is not in the local
\* file: static attributes from the store row when there is one, else
\* placeholders; an empty observation list in either case.
CreatedPremise(id, premise_data) ==
    IF premise_data = <<>>
    THEN NewRow(id, [name |-> "Premise", category |-> "Unknown",
                     region |-> "Unknown", district |-> "Unknown",
                     location |-> "Unknown", latitude |-> "", longitude |-> ""])
    ELSE NewRow(id, Static(premise_data[1]))

Column(obs, f) == [i \in 1..Len(obs) |-> obs[i][f]]

\* sum(o.get('pvi_raw', 0) for o in p.get('observations', []))
TotalPvi(p) == SumSeq(Column(p.observations, "pvi_raw"))

\* A faulty variant of UpdateTotals: the totals are taken over the history without
\* its last element.
UpdateTotalsStale(premise) ==
    LET obs == SubSeq(premise.observations, 1, Len(premise.observations) - 1)
        num_obs == Len(premise.observations)
        ti == SumSeq(Column(obs, "intensity"))
        tp == SumSeq(Column(obs, "pvi_raw"))
        ta == SumSeq(Column(obs, "absolute_pvi"))
    IN  [premise EXCEPT
            !.total_intensity = ti,
            !.average_intensity = IF num_obs > 0 THEN RoundDiv(ti * 100, num_obs) ELSE 0,
            !.total_pvi_raw = tp,
            !.average_pvi_raw = IF num_obs > 0 THEN RoundDiv(tp, num_obs) ELSE 0,
            !.total_absolute_pvi = ta,
            !.average_absolute_pvi = IF num_obs > 0 THEN RoundDiv(ta, num_obs) ELSE 0]

\* "Update totals & averages" of save_observation.
UpdateTotals(premise) ==
    LET obs == premise.observations
        num_obs == Len(obs)
        ti == SumSeq(Column(obs, "intensity"))
        tp == SumSeq(Column(obs, "pvi_raw"))
        ta == SumSeq(Column(obs, "absolute_pvi"))
    IN  [premise EXCEPT
            !.total_intensity = ti,
            !.average_intensity = IF num_obs > 0 THEN RoundDiv(ti * 100, num_obs) ELSE 0,
            !.total_pvi_raw = tp,
            !.average_pvi_raw = IF num_obs > 0 THEN RoundDiv(tp, num_obs) ELSE 0,
            !.total_absolute_pvi = ta,
            !.average_absolute_pvi = IF num_obs > 0 THEN RoundDiv(ta, num_obs) ELSE 0]

\* relative_set = [p for p in premises if p.district == filter or not filter]
RelativeSet(premises, filter_district) ==
    {p \in DOMAIN premises :
        premises[p].district = filter_district \/ filter_district = Null}

\* max(...) or 1, in hundredths; only taken of a non-empty relative_set.
MaxTotalPviRaw(premises, relative_set) ==
    LET m == MaxOf({TotalPvi(premises[p]) : p \in relative_set})
    IN  IF m = 0 THEN 100 ELSE m

\* round((total_pvi / max_total_pvi_raw) * 100, 2)
RelativePvi(total_pvi, max_total_pvi_raw) ==
    RoundDiv(total_pvi * 10000, max_total_pvi_raw)

\* The loop that sets relative_pvi on every member of relative_set.
SetRelative(premises, relative_set, max_total_pvi_raw) ==
    [p \in DOMAIN premises |->
        IF p \in relative_set
        THEN [premises[p] EXCEPT !.relative_pvi =
                 RelativePvi(TotalPvi(premises[p]), max_total_pvi_raw)]
        ELSE premises[p]]

\* "Update relative PVI" of save_observation.
UpdateRelative(premises, relative_set) ==
    SetRelative(premises, relative_set, MaxTotalPviRaw(premises, relative_set))

\* round(avg_intensity * w1 / 100 + pvi * w2 / 100, 2)
ViolationRate(avg_intensity, pvi, cfg) ==
    RoundDiv(avg_intensity * cfg.violation.non_conformance
             + pvi * cfg.violation.Pvi, 100)

\* "Violation rate" of save_observation; has_rel tells whether the dict has
\* the key relative_pvi (premise.get('relative_pvi', 0)).
UpdateViolation(premise, has_rel, cfg) ==
    [premise EXCEPT
        !.violation_rate =
            ViolationRate(premise.average_intensity,
                          premise.average_absolute_pvi, cfg),
        !.relative_violation_rate =
            ViolationRate(premise.average_intensity,
                          IF has_rel THEN premise.relative_pvi ELSE 0, cfg)]

\* Lines 834-868: find or create the premise and append the observation.
AppendObservation(premises, premise_id, premise_data, obs) ==
    LET premise == IF premise_id \in DOMAIN premises THEN premises[premise_id]
                   ELSE CreatedPremise(premise_id, premise_data)
    IN  [p \in DOMAIN premises \cup {premise_id} |->
            IF p = premise_id
            THEN [premise EXCEPT !.observations = Append(premise.observations, obs)]
            ELSE premises[p]]

\* Lines 879-893 on the list whose premise has its totals: rank the cohort,
\* blend.  raises tells that max() was taken of an empty relative_set
\* (ValueError); has_rel, that the premise's dict has the key relative_pvi.
RankAndBlend(premises, premise_id, has_rel, relative_set, cfg) ==
    IF relative_set = {}
    THEN [raises |-> TRUE, has_rel |-> has_rel, premise |-> premises[premise_id]]
    ELSE [raises |-> FALSE, has_rel |-> has_rel,
          premise |-> UpdateViolation(
                          UpdateRelative(premises, relative_set)[premise_id],
                          has_rel, cfg)]

\* Lines 870-893 on the list with the observation appended.
AggregateAndRank(premises, premise_id, found, filter_district, cfg) ==
    RankAndBlend([premises EXCEPT ![premise_id] = UpdateTotals(premises[premise_id])],
                 premise_id,
                 found \/ premise_id \in RelativeSet(premises, filter_district),
                 RelativeSet(premises, filter_district), cfg)

\* Lines 805-893 of save_observation on the loaded list.
ScorePremise(premises, premise_id, premise_data, sub, filter_district, cfg) ==
    AggregateAndRank(
        AppendObservation(premises, premise_id, premise_data,
                          NewObservation(sub, cfg)),
        premise_id, premise_id \in DOMAIN premises, filter_district, cfg)

\* supabase.table("premises").upsert(premise): every key of the dict
\* overwrites its column; a key the dict lacks keeps the column's value
\* (the default when the row is new).
Upsert(table, premise, has_rel) ==
    LET id == premise.id
        row == IF has_rel THEN premise
               ELSE [premise EXCEPT !.relative_pvi =
                        IF id \in DOMAIN table THEN table[id].relative_pvi ELSE 0]
    IN  [p \in DOMAIN table \cup {id} |-> IF p = id THEN row ELSE table[p]]

------------------------------------------------------------------------------
(* Score calculator of recalculate_all                                     *)

Elems(seq) == {seq[i] : i \in 1..Len(seq)}

\* A faulty variant of RecalcIntensity: the recomputed intensity is added to the
\* stored one instead of replacing it.
RecalcIntensityAccumulate(obs, cfg) ==
    obs.intensity
    + SumSet({k \in DOMAIN ParametersOf(cfg) :
                 k \in DOMAIN obs.defect_values \/ k \in Elems(obs.observations)},
             [k \in DOMAIN ParametersOf(cfg) |-> ParametersOf(cfg)[k].intensity])

\* "Calculate intensity dynamically": a parameter counts when its key is a key
\* of defect_values or an element of the stored label list.
RecalcIntensity(obs, cfg) ==
    SumSet({k \in DOMAIN ParametersOf(cfg) :
               k \in DOMAIN obs.defect_values \/ k \in Elems(obs.observations)},
           [k \in DOMAIN ParametersOf(cfg) |-> ParametersOf(cfg)[k].intensity])

\* "Calculate pvi_raw": terms with weight <= 0 or value <= 0 are skipped.
RecalcPviRaw(obs, cfg) ==
    SumSet({k \in DOMAIN cfg.weights :
               cfg.weights[k].weight > 0 /\ ValueOf(obs.defect_values, k) > 0},
           [k \in DOMAIN cfg.weights |->
               cfg.weights[k].weight * ValueOf(obs.defect_values, k)])

RecalcObservation(obs, cfg) ==
    [obs EXCEPT !.intensity = RecalcIntensity(obs, cfg),
                !.pvi_raw = RecalcPviRaw(obs, cfg),
                !.absolute_pvi = AbsolutePvi(RecalcPviRaw(obs, cfg), cfg)]

\* First pass over one premise: re-score every observation, then the totals.
FirstPass(premise, cfg) ==
    LET obs == [i \in 1..Len(premise.observations) |->
                   RecalcObservation(premise.observations[i], cfg)]
        num_obs == Len(obs)
        ti == SumSeq(Column(obs, "intensity"))
        tp == SumSeq(Column(obs, "pvi_raw"))
        ta == SumSeq(Column(obs, "absolute_pvi"))
    IN  [premise EXCEPT
            !.observations = obs,
            !.total_intensity = ti,
            !.average_intensity = IF num_obs > 0 THEN RoundDiv(ti * 100, num_obs) ELSE 0,
            !.total_pvi_raw = tp,
            !.average_pvi_raw = IF num_obs > 0 THEN RoundDiv(tp, num_obs) ELSE 0,
            !.total_absolute_pvi = ta,
            !.average_absolute_pvi = IF num_obs > 0 THEN RoundDiv(ta, num_obs) ELSE 0]

\* A faulty variant of GlobalMax: the maximum stops at the first premise.
GlobalMaxOfFirst(premises) ==
    MaxOf({0} \cup {premises[p].total_pvi_raw :
                       p \in {q \in DOMAIN premises :
                                 \A o \in DOMAIN premises : q <= o}})

\* max_total_pvi_raw_global after the first pass.
GlobalMax(premises) ==
    MaxOf({0} \cup {premises[p].total_pvi_raw : p \in DOMAIN premises})

\* Second pass over one premise: relative PVI against the global maximum (0
\* when that maximum is 0) and the two violation rates.
SecondPass(premise, max_total_pvi_raw_global, cfg) ==
    LET relative_pvi ==
            IF max_total_pvi_raw_global > 0
            THEN RelativePvi(TotalPvi(premise), max_total_pvi_raw_global)
            ELSE 0
    IN  [premise EXCEPT
            !.relative_pvi = relative_pvi,
            !.violation_rate =
                ViolationRate(premise.average_intensity,
                              premise.average_absolute_pvi, cfg),
            !.relative_violation_rate =
                ViolationRate(premise.average_intensity, relative_pvi, cfg)]

\* supabase.table("premises").update({observations, derived...}).eq("id", id):
\* the static columns of the row stay; no row, no change.
UpdateDerived(table, premise) ==
    IF premise.id \notin DOMAIN table THEN table
    ELSE [table EXCEPT ![premise.id] =
             [f \in DOMAIN premise |->
                 IF f \in StaticFields \cup {"id"} THEN table[premise.id][f]
                 ELSE premise[f]]]

------------------------------------------------------------------------------
(* Requests                                                                *)

\* The checklists a client submits: defects, defectValues (raw text, one
\* character per element) and the "none" flag.
Checklists ==
    { [defects |-> <<"obsGot">>,
       defectValues |-> [obsGot |-> <<"8", "0", "/", "=">>],
       none |-> FALSE],
      [defects |-> <<"obsUnreg">>, defectValues |-> EmptyValues, none |-> FALSE],
      [defects |-> <<>>, defectValues |-> EmptyValues, none |-> TRUE] }

\* Bodies of save_observation requests.  premiseId 0 and date "" stand for a
\* missing field (both are falsy).
ObservationBody(id, d, c, f) ==
    [premiseId |-> id, date |-> d, defects |-> c.defects,
     defectValues |-> c.defectValues, none |-> c.none, district |-> f]

AnyChecklist == CHOOSE c \in Checklists : c.none

\* The calls of save_observation: the session's role and the body.  A session
\* with any role takes the same path, so "user" stands for both roles.
ObservationCalls ==
    { <<"user", ObservationBody(id, "2025-03-01", c, f)>> :
        id \in PremiseIds, c \in Checklists, f \in FilterValues }
    \cup { <<"none", ObservationBody(1, "2025-03-01", AnyChecklist, Null)>>,
           <<"user", ObservationBody(0, "2025-03-01", AnyChecklist, Null)>>,
           <<"user", ObservationBody(1, "", AnyChecklist, Null)>> }

\* The calls made side by side: the same, without a district filter and
\* without the checklist that has no magnitude.
ConcurrentCalls ==
    { call \in ObservationCalls :
        call[2].district = Null /\ call[2].defects # <<"obsUnreg">> }

\* Checklists that exercise the normaliser: "none" together with a flag and
\* a magnitude; a magnitude of 500; a flag frontend_to_param does not know
\* beside a flag without magnitude; a flag the configuration has no
\* parameter for beside a flag with a magnitude; a magnitude for a flag the
\* configuration has a parameter but no weight for.
ScoreChecklists ==
    { [defects |-> <<"obsGot">>,
       defectValues |-> [obsGot |-> <<"5", "0", "0">>],
       none |-> TRUE],
      [defects |-> <<"obsGot">>,
       defectValues |-> [obsGot |-> <<"5", "0", "0">>],
       none |-> FALSE],
      [defects |-> <<"obsBogus", "obsUnreg">>,
       defectValues |-> [obsBogus |-> <<"7">>],
       none |-> FALSE],
      [defects |-> <<"obsPersonnel", "obsGot">>,
       defectValues |-> [obsGot |-> <<"8", "0">>],
       none |-> FALSE],
      [defects |-> <<"obsUnreg">>,
       defectValues |-> [obsUnreg |-> <<"1", "2">>],
       none |-> FALSE] }

\* The calls of save_observation that exercise the score calculator.
ScoreCalls ==
    { <<"user", ObservationBody(1, "2025-03-01", c, Null)>> :
        c \in ScoreChecklists }

\* The configuration files the score calculator may find.
ScoreConfigs ==
    {ConfigA, ConfigZeroPolicy, ConfigNegativeWeight, ConfigNoParameters}

\* format_title_case on the names and locations the forms below use.
format_title_case(s) ==
    CASE s = " gamma duka " -> "Gamma Duka"
      [] s = "main road" -> "Main Road"
      [] OTHER -> s

\* s.strip() on the values the forms below use.
strip(s) ==
    CASE s = " Newala " -> "Newala"
      [] OTHER -> s

InitialStatic(id) ==
    [name |-> IF id = 1 THEN "Alpha Pharmacy" ELSE "Beta Dispensary",
     category |-> "Pharmacy (Human)", region |-> "Mtwara",
     district |-> "Masasi", location |-> "Market Street",
     latitude |-> Null, longitude |-> Null]

\* Bodies of save_premise requests; id 0 stands for no id (an insert).
PremiseForms ==
    { [id |-> id, name |-> " gamma duka ", category |-> "Dispensaries",
       region |-> "Mtwara", district |-> " Newala ", location |-> "main road",
       latitude |-> Null, longitude |-> Null] : id \in {0, 2} }
    \cup
    { [id |-> id, name |-> "", category |-> "Dispensaries",
       region |-> "Mtwara", district |-> "Masasi", location |-> "main road",
       latitude |-> Null, longitude |-> Null] : id \in {1} }

\* Bodies of save_location requests.
LocationForms ==
    { [id |-> id, latitude |-> "-10.72", longitude |-> "38.80"] : id \in {1} }

\* A raw number of a save_parameters body: numeric text in tenths, or text
\* that float() rejects.
NoRows == [p \in {} |-> 0]

Num(v) == [numeric |-> TRUE, tenths |-> 10 * v]
Tenths(t) == [numeric |-> TRUE, tenths |-> t]
NotANumber == [numeric |-> FALSE, tenths |-> 0]

RawConfig(cfg) ==
    [parameters |-> [k \in DOMAIN cfg.parameters |->
                        [label |-> cfg.parameters[k].label,
                         intensity |-> Num(cfg.parameters[k].intensity)]],
     weights |-> [k \in DOMAIN cfg.weights |->
                     [weight |-> Num(cfg.weights[k].weight),
                      max_policy |-> Num(cfg.weights[k].max_policy)]],
     violation |-> [non_conformance |-> Num(cfg.violation.non_conformance),
                    Pvi |-> Num(cfg.violation.Pvi)]]

ParameterRequests ==
    { RawConfig(ConfigA), RawConfig(ConfigB),
      [RawConfig(ConfigB) EXCEPT !.weights.got.weight = Tenths(257)],
      [RawConfig(ConfigB) EXCEPT !.violation.Pvi = Num(101)],
      [RawConfig(ConfigB) EXCEPT !.weights.got.max_policy = NotANumber],
      [RawConfig(ConfigB) EXCEPT !.parameters.got.intensity = Num(0 - 5)] }

\* The calls of save_parameters: the session's role and the body.
ParameterCalls ==
    { <<"admin", data>> : data \in ParameterRequests }
    \cup { <<"user", RawConfig(ConfigB)>> }

\* int(float(x)): truncation toward zero.
IntOfFloat(raw) ==
    IF raw.tenths >= 0 THEN raw.tenths \div 10 ELSE 0 - ((0 - raw.tenths) \div 10)

\* A faulty variant of CoerceOk: the range of the value is not checked.
CoerceOkAnyRange(raw, lo, hi) == raw.numeric

\* One coercion of save_parameters: fails on text float() rejects and on a
\* value outside [lo, hi] (hi < lo: no upper limit).
CoerceOk(raw, lo, hi) ==
    /\ raw.numeric
    /\ IntOfFloat(raw) >= lo
    /\ (hi < lo \/ IntOfFloat(raw) <= hi)

ValidParameters(data) ==
    /\ \A k \in DOMAIN data.parameters :
           CoerceOk(data.parameters[k].intensity, 0, 0 - 1)
    /\ \A k \in DOMAIN data.weights :
           /\ CoerceOk(data.weights[k].weight, 0, 0 - 1)
           /\ CoerceOk(data.weights[k].max_policy, 0, 0 - 1)
    /\ CoerceOk(data.violation.non_conformance, 0, 100)
    /\ CoerceOk(data.violation.Pvi, 0, 100)

\* The structure save_parameters dumps: the body with every number coerced.
CoercedParameters(data) ==
    [parameters |-> [k \in DOMAIN data.parameters |->
                        [label |-> data.parameters[k].label,
                         intensity |-> IntOfFloat(data.parameters[k].intensity)]],
     weights |-> [k \in DOMAIN data.weights |->
                     [weight |-> IntOfFloat(data.weights[k].weight),
                      max_policy |-> IntOfFloat(data.weights[k].max_policy)]],
     violation |-> [non_conformance |-> IntOfFloat(data.violation.non_conformance),
                    Pvi |-> IntOfFloat(data.violation.Pvi)]]

------------------------------------------------------------------------------
(* Inspections                                                             *)

\* A count reported for a defect: a number, or numbers by category.
Count(n) == [kind |-> "int", n |-> n, by |-> <<>>]
ByCategory(f) == [kind |-> "dict", n |-> 0, by |-> <<f>>]

\* What one day of inspection reports: premises_inspected, defects, charges.
InspectionDays ==
    { [premises_inspected |-> [pharmacy |-> 2],
       defects |-> [got |-> Count(1)],
       charges |-> [got_value |-> 100, unregistered_value |-> 0,
                    dldm_value |-> 0, total_charges |-> 100]],
      [premises_inspected |-> [pharmacy |-> 1, dispensary |-> 3],
       defects |-> [got |-> ByCategory([pharmacy |-> 1, dispensary |-> 2]),
                    unreg |-> Count(4)],
       charges |-> [got_value |-> 50, unregistered_value |-> 20,
                    dldm_value |-> 5, total_charges |-> 75]] }

\* f"{inspection_type} - {region} - {district} - {date:%Y%m%d}" and the same
\* with "_{count}" (count 0: no suffix).
GeneratedName(district, date, count) == <<district, date, count>>

\* data.get('inspection_name', None) of a body without the key.
NoName == <<>>

\* Lines 1302-1308: the first of the names no summary has yet.
RECURSIVE UniqueName(_, _, _, _)
UniqueName(summaries, district, date, count) ==
    IF \A s \in DOMAIN summaries :
           summaries[s].inspection_name # GeneratedName(district, date, count)
    THEN GeneratedName(district, date, count)
    ELSE UniqueName(summaries, district, date, count + 1)

\* The inspection_name of a body: absent, the names of the first two
\* summaries of a district and day, or a name no summary has.
InspectionNames ==
    { NoName, GeneratedName("Masasi", "2025-03-01", 0),
      GeneratedName("Masasi", "2025-03-01", 1),
      GeneratedName("Newala", "2024-01-01", 0) }

\* Bodies of save_inspection requests; logged: 'username' in session.  The
\* date "01/03/2025" is one strptime('%Y-%m-%d') rejects.
InspectionCalls ==
    { [logged |-> TRUE, district |-> "Masasi", inspection_date |-> "2025-03-01",
       day |-> d, inspection_name |-> n, end |-> e] :
        d \in InspectionDays, n \in InspectionNames, e \in BOOLEAN }
    \cup { [logged |-> l, district |-> "Masasi", inspection_date |-> dt,
            day |-> CHOOSE d \in InspectionDays : TRUE,
            inspection_name |-> NoName, end |-> TRUE] :
             l \in BOOLEAN, dt \in {"2025-03-01", "01/03/2025"} }

NoDaily == <<>>

IdleInspection == [pc |-> "idle", resp |-> "none", summary_id |-> 0]

\* No summary, no daily record, no request.
NoInspections == [summaries |-> NoRows, daily |-> NoDaily, last |-> IdleInspection]

\* Lines 1295-1297: the summary with that name, 0 for none.
SummaryNamed(summaries, inspection_name) ==
    IF inspection_name # NoName
       /\ \E s \in DOMAIN summaries : summaries[s].inspection_name = inspection_name
    THEN CHOOSE s \in DOMAIN summaries :
             summaries[s].inspection_name = inspection_name
    ELSE 0

\* Lines 1310-1318: the row inserted for a new summary.
NewSummary(id, inspection_name, date) ==
    [id |-> id, inspection_name |-> inspection_name, finalized |-> FALSE,
     inspection_date |-> date, total_premises |-> 0,
     total_defects |-> [k \in {} |-> 0], value_got_products |-> 0,
     value_unregistered_products |-> 0, value_dldm_not_allowed |-> 0,
     total_charges |-> 0]

\* Lines 1330-1342: the daily record of the request.
DailyRecord(summary_id, date, day) ==
    [summary_id |-> summary_id, date |-> date,
     premises_data |-> day.premises_inspected,
     defects_data |-> day.defects,
     charges_data |-> [total |-> day.charges.total_charges,
                       got_value |-> day.charges.got_value,
                       unregistered_value |-> day.charges.unregistered_value,
                       dldm_value |-> day.charges.dldm_value]]

\* Lines 1356-1359: what one reported count adds to its key.
CountOf(v) ==
    IF v.kind = "int" THEN v.n
    ELSE SumSet(DOMAIN v.by[1], v.by[1])

\* A faulty variant of AggregateTotals: only the record of the request is
\* summed.
AggregateLatest(daily_all) ==
    LET d == daily_all[Len(daily_all)]
    IN  [total_premises |-> SumSet(DOMAIN d.premises_data, d.premises_data),
         total_defects |-> [k \in DOMAIN d.defects_data |-> CountOf(d.defects_data[k])],
         value_got_products |-> d.charges_data.got_value,
         value_unregistered_products |-> d.charges_data.unregistered_value,
         value_dldm_not_allowed |-> d.charges_data.dldm_value,
         total_charges |-> d.charges_data.total]

\* Lines 1349-1366: the totals over the daily records of one summary.
AggregateTotals(daily_all) ==
    LET keys == UNION {DOMAIN daily_all[i].defects_data : i \in 1..Len(daily_all)}
        of(k, d) == IF k \in DOMAIN d.defects_data THEN CountOf(d.defects_data[k])
                    ELSE 0
    IN  [total_premises |->
             SumSeq([i \in 1..Len(daily_all) |->
                        SumSet(DOMAIN daily_all[i].premises_data,
                               daily_all[i].premises_data)]),
         total_defects |->
             [k \in keys |->
                 SumSeq([i \in 1..Len(daily_all) |-> of(k, daily_all[i])])],
         value_got_products |->
             SumSeq([i \in 1..Len(daily_all) |-> daily_all[i].charges_data.got_value]),
         value_unregistered_products |->
             SumSeq([i \in 1..Len(daily_all) |->
                        daily_all[i].charges_data.unregistered_value]),
         value_dldm_not_allowed |->
             SumSeq([i \in 1..Len(daily_all) |-> daily_all[i].charges_data.dldm_value]),
         total_charges |->
             SumSeq([i \in 1..Len(daily_all) |-> daily_all[i].charges_data.total])]

\* Lines 1369-1378: the update of the summary row.
UpdateSummary(row, totals, date, end_flag) ==
    [row EXCEPT !.total_premises = totals.total_premises,
                !.total_defects = totals.total_defects,
                !.value_got_products = totals.value_got_products,
                !.value_unregistered_products = totals.value_unregistered_products,
                !.value_dldm_not_allowed = totals.value_dldm_not_allowed,
                !.total_charges = totals.total_charges,
                !.inspection_date = date,
                !.finalized = end_flag]

\* Lines 1293-1378 on the two tables: find or create the summary, insert
\* the daily record, aggregate, update the summary.
SavedInspection(i, data, end_flag) ==
    LET found == SummaryNamed(i.summaries, data.inspection_name)
        id == IF found # 0 THEN found ELSE Cardinality(DOMAIN i.summaries) + 1
        row == IF found # 0 THEN i.summaries[id]
               ELSE NewSummary(id, UniqueName(i.summaries, data.district,
                                              data.inspection_date, 0),
                               data.inspection_date)
        daily == Append(i.daily, DailyRecord(id, data.inspection_date, data.day))
        daily_all == SelectSeq(daily, LAMBDA d : d.summary_id = id)
        updated == UpdateSummary(row, AggregateTotals(daily_all),
                                 data.inspection_date, end_flag)
    IN  [summaries |-> [s \in DOMAIN i.summaries \cup {id} |->
                           IF s = id THEN updated ELSE i.summaries[s]],
         daily |-> daily,
         last |-> [pc |-> "done", resp |-> "success", summary_id |-> id]]

\* Lines 1256-1291: the response of a request that ends before any write.
InspectionRejection(data) ==
    IF ~data.logged THEN "401"
    ELSE IF data.inspection_date = "01/03/2025" THEN "400"
    ELSE "none"

\* unfinished_inspections (lines 1508-1528): the names it lists.
unfinished_inspections(summaries) ==
    {summaries[s].inspection_name :
        s \in {t \in DOMAIN summaries : ~summaries[t].finalized}}

------------------------------------------------------------------------------
(* State                                                                   *)

VARIABLES
    store,      \* the "premises" table: premise id -> row
    file,       \* static/data/premises.json: exists, premises (id -> row)
    config,     \* static/data/observation_parameters.json
    req,        \* the save_observation requests in flight, per worker
    job,        \* the recalculate_all request in flight
    written,    \* premise id -> static attributes last written by
                \* save_premise / save_location (history)
    clean,      \* complete recalculate_all runs in a row with no other write
                \* to the store or the configuration since (history, <= 2)
    overlap,    \* the two save_observation requests last started ran
                \* concurrently (history)
    ops,        \* requests handled so far
    param,      \* the save_parameters request last handled
    insp        \* the tables "inspection_summary" and "inspection", and the
                \* save_inspection request last handled

vars == <<store, file, config, req, job, written, clean, overlap, ops, param,
          insp>>

IdleReq ==
    [pc |-> "idle", resp |-> "none", role |-> "", data |-> <<>>, premise |-> <<>>,
     has_rel |-> FALSE, upsert_failed |-> FALSE, sync_failed |-> FALSE,
     all_premises |-> NoRows, before |-> <<>>]

IdleJob ==
    [pc |-> "idle", resp |-> "none", role |-> "", cfg |-> ConfigA,
     fetched |-> NoRows,
     premises |-> NoRows, queue |-> <<>>, max |-> 0,
     persisted |-> {}, failed |-> {}, tainted |-> FALSE]

\* data: the body; before: the configuration file when the request arrived.
IdleParam ==
    [pc |-> "idle", resp |-> "none", role |-> "", data |-> <<>>, before |-> <<>>]

InFlight(r) == req[r].pc \in {"upsert", "select", "write"}

\* A request arrives: one more is handled, and the responses of the requests
\* that ended before it have left (r: the worker that takes it, 0 for none).
Arrive(r) ==
    /\ ops < MaxOps
    /\ ops' = ops + 1

Delivered(rq, r) ==
    [o \in ReqIds |-> IF o # r /\ rq[o].pc = "done" THEN IdleReq ELSE rq[o]]

DeliveredJob == IF job.pc = "done" THEN IdleJob ELSE job

Init ==
    /\ \E S \in {{1}, {1, 2}} :
           /\ store = [p \in S |-> NewRow(p, InitialStatic(p))]
           /\ written = [p \in S |-> InitialStatic(p)]
    /\ file = [exists |-> FALSE, premises |-> NoRows]
    /\ config = ConfigA
    /\ req = [r \in ReqIds |-> IdleReq]
    /\ job = IdleJob
    /\ clean = 0
    /\ overlap = FALSE
    /\ ops = 0
    /\ param = IdleParam
    /\ insp = NoInspections

\* Another request wrote the store or the configuration: the recalculation
\* in flight no longer runs alone, and the last runs are no longer the last
\* writes.
Taint == /\ clean' = 0
         /\ job' = IF job.pc = "persist" THEN [job EXCEPT !.tainted = TRUE]
                   ELSE DeliveredJob

RowOf(table, id) == IF id \in DOMAIN table THEN <<table[id]>> ELSE <<>>

------------------------------------------------------------------------------
(* save_observation                                                        *)

\* load_premises_file: the file's list, or, when the file is missing, the
\* rows of the store (none when the select raises), which it writes out.
LoadPremises(sel_ok) ==
    IF file.exists THEN file.premises
    ELSE IF sel_ok THEN store ELSE NoRows

\* The store's answers a request may get: the select of load_premises_file
\* is made only when the file is missing, the select of one premise only
\* when the loaded list lacks it.
SelAnswers(answers) == IF file.exists THEN {TRUE} ELSE answers
FetchAnswers(answers, premises, id) ==
    IF id \in DOMAIN premises THEN {TRUE} ELSE answers

\* Lines 834-893 for one body: the loaded list, scored.
Scored(data, premises, fetch_ok) ==
    ScorePremise(premises, data.premiseId,
                 IF fetch_ok THEN RowOf(store, data.premiseId) ELSE <<>>,
                 data, data.district, config)

\* The request after line 893.
Loaded(role, data, scored) ==
    [pc |-> "upsert", resp |-> "none", role |-> role, data |-> <<data>>,
     premise |-> <<scored.premise>>, has_rel |-> scored.has_rel,
     upsert_failed |-> FALSE, sync_failed |-> FALSE,
     all_premises |-> NoRows, before |-> RowOf(store, data.premiseId)]

Ended(resp) == [IdleReq EXCEPT !.pc = "done", !.resp = resp]

\* A faulty variant of Rejection: the date is not looked at.
RejectionByIdOnly(role, data) ==
    IF role = "none" THEN "403"
    ELSE IF data.premiseId = 0 THEN "400"
    ELSE "none"

\* Lines 775-788: the response of a request that is turned away before any
\* scoring, "none" for one that is not.
Rejection(role, data) ==
    IF role = "none" THEN "403"
    ELSE IF data.premiseId = 0 \/ data.date = "" THEN "400"
    ELSE "none"

\* The request that was turned away, with its body.
Rejected(role, data) ==
    [Ended(Rejection(role, data)) EXCEPT !.data = <<data>>, !.role = role]

\* The whole handler, run alone.  upsert_ok / select_ok: whether the upsert
\* of line 897 / the select of line 900 succeeds; when either raises, the
\* except clause prints and the handler returns success all the same.
\* answers: what a call to the store may do, succeed (TRUE) or raise (FALSE).
SaveObservationFrom(calls, answers) ==
    /\ Arrive(1)
    /\ job' = DeliveredJob
    /\ param' = IdleParam
    /\ UNCHANGED <<config, written, overlap, insp>>
    /\ \E call \in calls :
        LET role == call[1]
            data == call[2]
        IN
        IF Rejection(role, data) # "none"
        THEN /\ req' = [Delivered(req, 1) EXCEPT ![1] = Rejected(role, data)]
             /\ UNCHANGED <<store, file, clean>>
        ELSE IF NormalizeRaises(data, config)
        THEN /\ req' = [Delivered(req, 1) EXCEPT ![1] =
                           [Ended("500") EXCEPT !.data = <<data>>, !.role = role]]
             /\ UNCHANGED <<store, file, clean>>
        ELSE
          \E sel_ok \in SelAnswers(answers) :
          \E fetch_ok \in FetchAnswers(answers, LoadPremises(sel_ok), data.premiseId) :
          \E scored \in {Scored(data, LoadPremises(sel_ok), fetch_ok)} :
            LET loaded == [exists |-> TRUE, premises |-> LoadPremises(sel_ok)]
            IN
            IF scored.raises
            THEN /\ req' = [Delivered(req, 1) EXCEPT ![1] = Ended("500")]
                 /\ file' = loaded
                 /\ UNCHANGED <<store, clean>>
            ELSE
              \E upsert_ok \in answers :
              \E select_ok \in (IF upsert_ok THEN answers ELSE {FALSE}) :
                /\ store' = IF upsert_ok
                            THEN Upsert(store, scored.premise, scored.has_rel)
                            ELSE store
                /\ file' = IF select_ok
                           THEN [exists |-> TRUE, premises |-> store']
                           ELSE loaded
                /\ clean' = IF upsert_ok THEN 0 ELSE clean
                /\ req' = [Delivered(req, 1) EXCEPT ![1] =
                              [Loaded(role, data, scored) EXCEPT
                                  !.pc = "done", !.resp = "success",
                                  !.upsert_failed = ~upsert_ok,
                                  !.sync_failed = upsert_ok /\ ~select_ok]]

SaveObservationWith(answers) == SaveObservationFrom(ObservationCalls, answers)

SaveObservation == SaveObservationWith(BOOLEAN)

\* The handler step by step, for requests that run side by side.
\* Lines 775-893: checks, configuration read, load_premises_file, scoring.
StartObservationFrom(r, calls, answers) ==
    /\ Arrive(r)
    /\ job' = DeliveredJob
    /\ param' = IdleParam
    /\ UNCHANGED <<store, config, written, clean, insp>>
    /\ \E call \in calls :
        LET role == call[1]
            data == call[2]
        IN
        IF Rejection(role, data) # "none"
        THEN /\ req' = [Delivered(req, r) EXCEPT ![r] = Rejected(role, data)]
             /\ UNCHANGED <<file, overlap>>
        ELSE IF NormalizeRaises(data, config)
        THEN /\ req' = [Delivered(req, r) EXCEPT ![r] =
                           [Ended("500") EXCEPT !.data = <<data>>, !.role = role]]
             /\ UNCHANGED <<file, overlap>>
        ELSE
          \E sel_ok \in SelAnswers(answers) :
          \E fetch_ok \in FetchAnswers(answers, LoadPremises(sel_ok), data.premiseId) :
          \E scored \in {Scored(data, LoadPremises(sel_ok), fetch_ok)} :
            /\ file' = [exists |-> TRUE, premises |-> LoadPremises(sel_ok)]
            /\ IF scored.raises
               THEN /\ req' = [Delivered(req, r) EXCEPT ![r] = Ended("500")]
                    /\ UNCHANGED overlap
               ELSE /\ req' = [Delivered(req, r) EXCEPT ![r] = Loaded(role, data, scored)]
                    /\ overlap' = (\E o \in ReqIds \ {r} : InFlight(o))

StartObservation(r) == StartObservationFrom(r, ConcurrentCalls, BOOLEAN)

\* Line 897: the upsert.
UpsertObservationWith(r, answers) ==
    /\ req[r].pc = "upsert"
    /\ \E ok \in answers :
        IF ok
        THEN /\ store' = Upsert(store, req[r].premise[1], req[r].has_rel)
             /\ req' = [req EXCEPT ![r].pc = "select"]
             /\ Taint
        ELSE /\ req' = [req EXCEPT ![r].pc = "done", ![r].resp = "success",
                                   ![r].upsert_failed = TRUE]
             /\ UNCHANGED <<store, job, clean>>
    /\ UNCHANGED <<file, config, written, overlap, ops, param, insp>>

UpsertObservation(r) == UpsertObservationWith(r, BOOLEAN)

\* Lines 900-901: select every row.
SelectAllWith(r, answers) ==
    /\ req[r].pc = "select"
    /\ \E ok \in answers :
        req' = IF ok
               THEN [req EXCEPT ![r].pc = "write", ![r].all_premises = store]
               ELSE [req EXCEPT ![r].pc = "done", ![r].resp = "success",
                                ![r].sync_failed = TRUE]
    /\ UNCHANGED <<store, file, config, job, written, clean, overlap, ops, param,
                   insp>>

SelectAll(r) == SelectAllWith(r, BOOLEAN)

\* Lines 902-908: overwrite the local file and return success.
WriteFile(r) ==
    /\ req[r].pc = "write"
    /\ file' = [exists |-> TRUE, premises |-> req[r].all_premises]
    /\ req' = [req EXCEPT ![r].pc = "done", ![r].resp = "success",
                          ![r].all_premises = NoRows]
    /\ UNCHANGED <<store, config, job, written, clean, overlap, ops, param,
                   insp>>

------------------------------------------------------------------------------
(* recalculate_all                                                         *)

RECURSIVE Ascending(_)
Ascending(S) ==
    IF S = {} THEN <<>>
    ELSE LET m == CHOOSE x \in S : \A y \in S : x <= y
         IN  <<m>> \o Ascending(S \ {m})

\* The request after the first pass (lines 926-987).
FirstPassed ==
    LET premises == [p \in DOMAIN store |-> FirstPass(store[p], config)]
    IN  [pc |-> "persist", resp |-> "none", role |-> "admin", cfg |-> config,
         fetched |-> store, premises |-> premises,
         queue |-> Ascending(DOMAIN store),
         max |-> GlobalMax(premises),
         persisted |-> {}, failed |-> {}, tainted |-> FALSE]

\* A faulty variant of Persisted: the blend values are read from the
\* configuration file at each iteration.
PersistedRereading(j) ==
    LET id == Head(j.queue)
        last == Len(j.queue) = 1
    IN  [j EXCEPT !.premises[id] = SecondPass(j.premises[id], j.max, config),
                  !.queue = Tail(j.queue),
                  !.persisted = j.persisted \cup {id},
                  !.pc = IF last THEN "done" ELSE "persist",
                  !.resp = IF last THEN "success" ELSE "none"]

\* One iteration of the second pass (lines 990-1022) with an update that
\* succeeds: the row is ranked, blended and written.
Persisted(j) ==
    LET id == Head(j.queue)
        last == Len(j.queue) = 1
    IN  [j EXCEPT !.premises[id] = SecondPass(j.premises[id], j.max, j.cfg),
                  !.queue = Tail(j.queue),
                  !.persisted = j.persisted \cup {id},
                  !.pc = IF last THEN "done" ELSE "persist",
                  !.resp = IF last THEN "success" ELSE "none"]

\* One iteration whose update raises: nothing catches it, the request ends.
Aborted(j) == [j EXCEPT !.pc = "done", !.resp = "500", !.failed = {Head(j.queue)}]

\* A faulty variant of RecalcRejection: any session with a role may run it.
RecalcRejectionAnyRole(role, fetch_ok) ==
    IF role = "none" THEN "403"
    ELSE IF ~fetch_ok THEN "500"
    ELSE IF DOMAIN store = {} THEN "404"
    ELSE "none"

\* The response of a request that ends before the first pass.
RecalcRejection(role, fetch_ok) ==
    IF role # "admin" THEN "403"
    ELSE IF ~fetch_ok THEN "500"
    ELSE IF DOMAIN store = {} THEN "404"
    ELSE "none"

\* The second pass run alone from job j on table t; fail_at is the iteration
\* whose update raises (0: none does).
RECURSIVE RunSecondPass(_, _, _)
RunNext(j, t, id, fail_at) ==
    RunSecondPass(j, UpdateDerived(t, j.premises[id]),
                  IF fail_at = 0 THEN 0 ELSE fail_at - 1)

RunSecondPass(j, t, fail_at) ==
    IF j.pc # "persist" THEN [job |-> j, store |-> t]
    ELSE IF fail_at = 1 THEN [job |-> Aborted(j), store |-> t]
    ELSE RunNext(Persisted(j), t, Head(j.queue), fail_at)

\* The whole handler, run alone.
RecalculateAllWith(answers) ==
    /\ Arrive(0)
    /\ req' = Delivered(req, 0)
    /\ param' = IdleParam
    /\ UNCHANGED <<file, config, written, overlap, insp>>
    /\ \E role \in Roles, fetch_ok \in answers :
        IF RecalcRejection(role, fetch_ok) # "none"
        THEN /\ job' = [IdleJob EXCEPT !.pc = "done", !.role = role,
                                       !.resp = RecalcRejection(role, fetch_ok)]
             /\ clean' = IF role # "admin" THEN clean ELSE 0
             /\ UNCHANGED store
        ELSE \E fail_at \in (IF FALSE \in answers
                               THEN 0..Cardinality(DOMAIN store) ELSE {0}) :
             \E run \in {RunSecondPass([FirstPassed EXCEPT !.role = role],
                                           store, fail_at)} :
                   /\ job' = run.job
                   /\ store' = run.store
                   /\ clean' = IF fail_at = 0 THEN Min2(clean + 1, 2) ELSE 0

RecalculateAll == RecalculateAllWith(BOOLEAN)

\* The handler step by step.  Lines 921-987.
StartRecalculate ==
    /\ job.pc # "persist"
    /\ Arrive(0)
    /\ req' = Delivered(req, 0)
    /\ param' = IdleParam
    /\ \E role \in Roles, fetch_ok \in BOOLEAN :
        IF RecalcRejection(role, fetch_ok) # "none"
        THEN /\ job' = [IdleJob EXCEPT !.pc = "done", !.role = role,
                                       !.resp = RecalcRejection(role, fetch_ok)]
             /\ clean' = IF role # "admin" THEN clean ELSE 0
        ELSE /\ job' = [FirstPassed EXCEPT !.role = role]
             /\ UNCHANGED clean
    /\ UNCHANGED <<store, file, config, written, overlap, insp>>

\* Lines 990-1024, one iteration of the second pass.
PersistRecalculate ==
    /\ job.pc = "persist"
    /\ \E ok \in BOOLEAN :
        IF ok
        THEN /\ job' = Persisted(job)
             /\ store' = UpdateDerived(store, job'.premises[Head(job.queue)])
             /\ clean' = IF job'.pc # "done" THEN clean
                         ELSE IF job.tainted THEN 0
                         ELSE Min2(clean + 1, 2)
        ELSE /\ job' = Aborted(job)
             /\ clean' = 0
             /\ UNCHANGED store
    /\ UNCHANGED <<file, config, req, written, overlap, ops, param, insp>>

------------------------------------------------------------------------------
(* save_premise, save_location, save_parameters                            *)

\* Lines 609-656, from a session with a role.  An update of an id without a
\* row changes nothing; an insert takes the next id of the table.
SavePremise ==
    /\ Arrive(0)
    /\ req' = Delivered(req, 0)
    /\ param' = IdleParam
    /\ \E data \in PremiseForms :
        LET st == [name |-> format_title_case(data.name),
                   category |-> strip(data.category),
                   region |-> strip(data.region),
                   district |-> strip(data.district),
                   location |-> format_title_case(data.location),
                   latitude |-> data.latitude,
                   longitude |-> data.longitude]
            next_id == MaxOf(DOMAIN store \cup {0}) + 1
        IN
        /\ st.name # "" /\ st.category # "" /\ st.region # "" /\ st.district # ""
        /\ IF data.id # 0
           THEN /\ data.id \in DOMAIN store
                /\ store' = [store EXCEPT ![data.id] =
                                [f \in DOMAIN store[data.id] |->
                                    IF f \in StaticFields THEN st[f]
                                    ELSE store[data.id][f]]]
                /\ written' = [p \in DOMAIN written \cup {data.id} |->
                                  IF p = data.id THEN st ELSE written[p]]
           ELSE /\ next_id \in PremiseIds
                /\ store' = [p \in DOMAIN store \cup {next_id} |->
                                IF p = next_id THEN NewRow(next_id, st) ELSE store[p]]
                /\ written' = [p \in DOMAIN written \cup {next_id} |->
                                  IF p = next_id THEN st ELSE written[p]]
    /\ Taint
    /\ UNCHANGED <<file, config, overlap, insp>>

\* Lines 688-720, from a session with a role on a mobile device.
SaveLocation ==
    /\ Arrive(0)
    /\ req' = Delivered(req, 0)
    /\ param' = IdleParam
    /\ \E data \in LocationForms :
        /\ data.id \in DOMAIN store
        /\ store' = [store EXCEPT ![data.id].latitude = data.latitude,
                                  ![data.id].longitude = data.longitude]
        /\ written' = [p \in DOMAIN written \cup {data.id} |->
                          IF p = data.id THEN Static(store'[data.id])
                          ELSE written[p]]
    /\ Taint
    /\ UNCHANGED <<file, config, overlap, insp>>

\* A faulty variant of Dumped: the sections are written one by one as they
\* pass, so the intensities of a body whose weights fail are kept.
DumpedBySection(data, cfg) ==
    IF ValidParameters(data) THEN CoercedParameters(data)
    ELSE IF \A k \in DOMAIN data.parameters :
                CoerceOk(data.parameters[k].intensity, 0, 0 - 1)
         THEN [cfg EXCEPT !.parameters =
                  [k \in DOMAIN data.parameters |->
                      [label |-> data.parameters[k].label,
                       intensity |-> IntOfFloat(data.parameters[k].intensity)]]]
         ELSE cfg

\* The configuration file after an admin's request: the coerced body when
\* every value passes (lines 1160-1162), the file as it was when one fails
\* (the returns of lines 1119-1158 come before the dump).
Dumped(data, cfg) ==
    IF ValidParameters(data) THEN CoercedParameters(data) ELSE cfg

\* The response of save_parameters.
ParametersResponse(role, data) ==
    IF role # "admin" THEN "403"
    ELSE IF ~ValidParameters(data) THEN "400"
    ELSE "success"

\* Lines 1104-1164.
SaveParameters ==
    /\ Arrive(0)
    /\ req' = Delivered(req, 0)
    /\ \E call \in ParameterCalls :
        LET role == call[1]
            data == call[2]
        IN
        /\ param' = [pc |-> "done", resp |-> ParametersResponse(role, data),
                     role |-> role, data |-> <<data>>, before |-> <<config>>]
        /\ config' = IF role = "admin" THEN Dumped(data, config) ELSE config
        /\ IF role = "admin" /\ ValidParameters(data)
           THEN Taint
           ELSE UNCHANGED clean /\ job' = DeliveredJob
    /\ UNCHANGED <<store, file, written, overlap, insp>>

------------------------------------------------------------------------------
(* save_inspection, end_inspection                                         *)

\* save_inspection with the end flag the handler sees.
SaveInspectionWith(data, end_flag) ==
    /\ Arrive(0)
    /\ req' = Delivered(req, 0)
    /\ job' = DeliveredJob
    /\ param' = IdleParam
    /\ insp' = IF InspectionRejection(data) # "none"
               THEN [insp EXCEPT !.last = [pc |-> "done", summary_id |-> 0,
                                           resp |-> InspectionRejection(data)]]
               ELSE SavedInspection(insp, data, end_flag)
    /\ UNCHANGED <<store, file, config, written, clean, overlap>>

\* Lines 1255-1393: end = data.get('end', False).
SaveInspection == \E data \in InspectionCalls : SaveInspectionWith(data, data.end)

\* Lines 1397-1404: data['end'] = True, then save_inspection on the same
\* request.
EndInspection == \E data \in InspectionCalls : SaveInspectionWith(data, TRUE)

------------------------------------------------------------------------------
(* Specifications                                                          *)

\* Requests run one after another, each handler from start to end.
Next ==
    \/ SaveObservation
    \/ RecalculateAll
    \/ SavePremise
    \/ SaveLocation
    \/ SaveParameters

Spec == Init /\ [][Next]_vars

\* The same, with a store that answers every call.
ReliableNext ==
    \/ SaveObservationWith({TRUE})
    \/ RecalculateAllWith({TRUE})
    \/ SavePremise
    \/ SaveLocation
    \/ SaveParameters

ReliableSpec == Init /\ [][ReliableNext]_vars

\* The score calculator on each configuration file, with a store that
\* answers every call: submissions and recalculations of one premise.
ScoreInit ==
    /\ store = [p \in {1} |-> NewRow(p, InitialStatic(p))]
    /\ written = [p \in {1} |-> InitialStatic(p)]
    /\ file = [exists |-> FALSE, premises |-> NoRows]
    /\ config \in ScoreConfigs
    /\ req = [r \in ReqIds |-> IdleReq]
    /\ job = IdleJob
    /\ clean = 0
    /\ overlap = FALSE
    /\ ops = 0
    /\ param = IdleParam
    /\ insp = NoInspections

ScoreNext ==
    \/ SaveObservationFrom(ScoreCalls, {TRUE})
    \/ RecalculateAllWith({TRUE})

ScoreSpec == ScoreInit /\ [][ScoreNext]_vars

\* Two workers: requests run side by side, at most two at a time, each
\* taken by the first worker that is not busy.
Busy == Cardinality({r \in ReqIds : InFlight(r)})
        + (IF job.pc = "persist" THEN 1 ELSE 0)

FreeWorker(r) == ~InFlight(r) /\ \A o \in ReqIds : o < r => InFlight(o)

ConcNext ==
    \/ \E r \in ReqIds : Busy < 2 /\ FreeWorker(r) /\ StartObservation(r)
    \/ \E r \in ReqIds : UpsertObservation(r)
    \/ \E r \in ReqIds : SelectAll(r)
    \/ \E r \in ReqIds : WriteFile(r)
    \/ Busy < 2 /\ StartRecalculate
    \/ PersistRecalculate
    \/ Busy < 2 /\ SavePremise
    \/ Busy < 2 /\ SaveLocation
    \/ Busy < 2 /\ SaveParameters

ConcSpec == Init /\ [][ConcNext]_vars

\* Inspection requests, one after another.
InspectionNext ==
    \/ SaveInspection
    \/ EndInspection

InspectionSpec == Init /\ [][InspectionNext]_vars

\* recalculate_all step by step on one worker while save_parameters requests
\* are served on the other; submissions arrive between the runs.
SnapshotNext ==
    \/ job.pc # "persist" /\ SaveObservationWith({TRUE})
    \/ StartRecalculate
    \/ PersistRecalculate
    \/ SaveParameters

SnapshotSpec == Init /\ [][SnapshotNext]_vars

\* Submissions side by side with every store call succeeding, where two
\* requests for one premise never overlap: a request is taken only for a
\* premise no request in flight is working on.
BusyPremises == {req[o].data[1].premiseId : o \in {q \in ReqIds : InFlight(q)}}

DisjointCalls ==
    { call \in ConcurrentCalls : call[2].premiseId \notin BusyPremises }

DisjointNext ==
    \/ \E r \in ReqIds :
          Busy < 2 /\ FreeWorker(r) /\ StartObservationFrom(r, DisjointCalls, {TRUE})
    \/ \E r \in ReqIds : UpsertObservationWith(r, {TRUE})
    \/ \E r \in ReqIds : SelectAllWith(r, {TRUE})
    \/ \E r \in ReqIds : WriteFile(r)

DisjointSpec == Init /\ [][DisjointNext]_vars

------------------------------------------------------------------------------
(* Claims                                                                  *)

\* The columns the scoring operations compute.
Derived(row) ==
    [f \in DOMAIN row \ (StaticFields \cup {"id"}) |-> row[f]]

\* The aggregates of a row are those of its observation history.
AggConsistent(row) ==
    LET n == Len(row.observations)
        ti == SumSeq(Column(row.observations, "intensity"))
        tp == SumSeq(Column(row.observations, "pvi_raw"))
        ta == SumSeq(Column(row.observations, "absolute_pvi"))
    IN  /\ row.total_intensity = ti
        /\ row.average_intensity = (IF n > 0 THEN RoundDiv(ti * 100, n) ELSE 0)
        /\ row.total_pvi_raw = tp
        /\ row.average_pvi_raw = (IF n > 0 THEN RoundDiv(tp, n) ELSE 0)
        /\ row.total_absolute_pvi = ta
        /\ row.average_absolute_pvi = (IF n > 0 THEN RoundDiv(ta, n) ELSE 0)

\* A save_observation request that returned success after its upsert went
\* through.
Saved(r) ==
    /\ req[r].pc = "done"
    /\ req[r].resp = "success"
    /\ ~req[r].upsert_failed

HistoryBefore(r) ==
    IF req[r].before = <<>> THEN <<>> ELSE req[r].before[1].observations

\* C1: when two save_observation requests for the same premise ran
\* concurrently and both returned success, the stored history holds both
\* observations (it grew by two) and the stored aggregates are those of that
\* history.
C1_ConcurrentSubmissionsSerialized ==
    \A r1, r2 \in ReqIds :
        (/\ r1 < r2
         /\ overlap
         /\ Saved(r1) /\ Saved(r2)
         /\ req[r1].data[1].premiseId = req[r2].data[1].premiseId)
        => LET id == req[r1].data[1].premiseId
               base == Min2(Len(HistoryBefore(r1)), Len(HistoryBefore(r2)))
           IN  /\ id \in DOMAIN store
               /\ Len(store[id].observations) = base + 2
               /\ AggConsistent(store[id])

\* C2: when the write to the store fails, the submission does not report
\* success and the stored premise is the one from before the request.
C2_PersistenceFailureFailsSubmission ==
    \A r \in ReqIds :
        (req[r].pc = "done" /\ req[r].upsert_failed)
        => /\ req[r].resp # "success"
           /\ RowOf(store, req[r].data[1].premiseId) = req[r].before

\* C3: when persisting one premise fails during recalculate_all, every other
\* fetched premise is stored with its recomputed values when the job ends.
C3_RecalcFailureIsolated ==
    (job.pc = "done" /\ job.failed # {})
    => \A p \in DOMAIN job.fetched \ job.failed :
           /\ p \in DOMAIN store
           /\ Derived(store[p]) =
                  Derived(SecondPass(FirstPass(job.fetched[p], job.cfg),
                                     job.max, job.cfg))

\* C4: a recalculate_all that runs right after a complete recalculate_all,
\* with no write to observations or configuration in between, leaves every
\* stored derived field as it found it.
C4_RecalcIdempotent ==
    (job.pc = "done" /\ job.resp = "success" /\ clean = 2)
    => /\ DOMAIN store = DOMAIN job.fetched
       /\ \A p \in DOMAIN store : Derived(store[p]) = Derived(job.fetched[p])

\* C4 witness: a second clean run has ended over a store that holds a scored
\* observation.
C4_Witness ==
    /\ job.pc = "done" /\ job.resp = "success" /\ clean = 2
    /\ \E p \in DOMAIN store :
           /\ store[p].total_intensity > 0
           /\ store[p].total_pvi_raw > 0
           /\ store[p].relative_pvi = 10000

\* C5: with no request in flight, every stored relative PVI is at most 100,
\* and when some stored premise has a positive total PVI some stored premise
\* has relative PVI exactly 100.
C5_CohortRankingInvariant ==
    /\ \A p \in DOMAIN store :
           store[p].relative_pvi >= 0 /\ store[p].relative_pvi <= 10000
    /\ (\E p \in DOMAIN store : TotalPvi(store[p]) > 0)
       => \E p \in DOMAIN store : store[p].relative_pvi = 10000

\* The stored premises of a district and the largest total PVI among them.
DistrictCohort(d) == {p \in DOMAIN store : store[p].district = d}

\* C6: after a submission with a district filter returned success, every
\* stored premise of that district has relative PVI = its total PVI over the
\* district's maximum, times 100 (80 and 40 give 100.0 and 50.0).
C6_DistrictRelativePvi ==
    \A r \in ReqIds :
        (Saved(r) /\ req[r].data[1].district # Null)
        => LET cohort == DistrictCohort(req[r].data[1].district)
           IN  \A p \in cohort :
                   store[p].relative_pvi =
                       RelativePvi(TotalPvi(store[p]),
                                   MaxTotalPviRaw(store, cohort))

\* C7: the static attributes of a stored premise are the ones last written
\* by save_premise or save_location; scoring never changes them.
C7_StaticAttributesUntouched ==
    \A p \in DOMAIN written \cap DOMAIN store : Static(store[p]) = written[p]

\* C8: a successful save_observation extends the stored history of its
\* premise by exactly one observation, the earlier history being its prefix.
C8_ObservationsAppendOnly ==
    \A r \in ReqIds :
        Saved(r)
        => LET id == req[r].data[1].premiseId
               old == HistoryBefore(r)
           IN  /\ id \in DOMAIN store
               /\ Len(store[id].observations) = Len(old) + 1
               /\ Column(SubSeq(store[id].observations, 1, Len(old)), "date")
                      = Column(old, "date")
               /\ Column(SubSeq(store[id].observations, 1, Len(old)), "observations")
                      = Column(old, "observations")
               /\ Column(SubSeq(store[id].observations, 1, Len(old)), "defect_values")
                      = Column(old, "defect_values")

\* The stored totals of the premise before request r acted on it.
TotalBefore(r) ==
    IF req[r].before = <<>> THEN 0 ELSE req[r].before[1].total_intensity
AverageBefore(r) ==
    IF req[r].before = <<>> THEN 0 ELSE req[r].before[1].average_intensity

\* C9: a successful submission whose observation has intensity > 0 strictly
\* increases the stored total_intensity, and the new average_intensity lies
\* between the old average and the new observation's intensity.
C9_IntensityMonotone ==
    \A r \in ReqIds :
        LET id == req[r].data[1].premiseId
            intensity == req[r].premise[1].observations[
                             Len(req[r].premise[1].observations)].intensity
        IN  (Saved(r) /\ intensity > 0)
            => /\ id \in DOMAIN store
               /\ store[id].total_intensity > TotalBefore(r)
               /\ store[id].average_intensity
                      >= Min2(AverageBefore(r), intensity * 100)
               /\ store[id].average_intensity
                      <= Max2(AverageBefore(r), intensity * 100)

\* C10: every stored premise has total_intensity = the sum of its
\* observations' intensities and average_intensity = that sum over their
\* number rounded to 2 decimals (0 with no observation); intensities 30, 30,
\* 0 give total 60 and average 20.0.
C10_AggregateConsistency ==
    \A p \in DOMAIN store :
        /\ AggConsistent(store[p])
        /\ Column(store[p].observations, "intensity") = <<30, 30, 0>>
           => /\ store[p].total_intensity = 60
              /\ store[p].average_intensity = 2000

\* C10 witness: a premise stored with intensities 30, 30, 0 in submission
\* order, total 60, average 20.0.
C10_Witness ==
    \E p \in DOMAIN store :
        /\ Column(store[p].observations, "intensity") = <<30, 30, 0>>
        /\ Column(store[p].observations, "observations")
               = <<(<<"GOT Medicines">>), (<<"Unregistered Medicines">>), (<<"None">>)>>
        /\ store[p].total_intensity = 60
        /\ store[p].average_intensity = 2000

\* C17: a save_parameters request in which some intensity, weight, max_policy
\* or blend value fails its coercion or range check is answered with an error
\* and leaves the configuration file exactly as it was.
C17_NoPartialConfigurationWrite ==
    (param.pc = "done" /\ ~ValidParameters(param.data[1]))
    => /\ param.resp \in {"400", "403"}
       /\ config = param.before[1]

\* C17 witness: an admin's body whose intensities pass and whose max_policy
\* fails has been turned away.
C17_Witness ==
    /\ param.pc = "done"
    /\ param.resp = "400"
    /\ \A k \in DOMAIN param.data[1].parameters :
           CoerceOk(param.data[1].parameters[k].intensity, 0, 0 - 1)
    /\ \E k \in DOMAIN param.data[1].weights :
           ~param.data[1].weights[k].max_policy.numeric
    /\ CoercedParameters(
           [param.data[1] EXCEPT !.weights = RawConfig(config).weights]
       ).parameters # config.parameters

\* C18: a save_observation request without a premise id or without a date
\* ends with a failure response and leaves the store and the local premises
\* file as they were.
C18_MissingFieldsRejected ==
    [][\A r \in ReqIds :
          (/\ ops' = ops + 1
           /\ req'[r].pc = "done"
           /\ req'[r].data # <<>>
           /\ (req'[r].data[1].premiseId = 0 \/ req'[r].data[1].date = ""))
          => /\ req'[r].resp \in {"400", "403"}
             /\ store' = store
             /\ file' = file]_vars

\* C18 witness: a request without a date has been turned away while the
\* store and the file hold a scored premise.
C18_Witness ==
    \E r \in ReqIds :
        /\ req[r].pc = "done"
        /\ req[r].resp = "400"
        /\ req[r].data[1].date = ""
        /\ file.exists
        /\ \E p \in DOMAIN store : store[p].observations # <<>>

\* The observation a request stored: the last one of its premise's history.
StoredBy(r) ==
    LET obs == store[req[r].data[1].premiseId].observations
    IN  obs[Len(obs)]

\* C11: an observation submitted with the "none" flag is stored with
\* intensity 0, no defect magnitude, pvi_raw 0, absolute_pvi 0 and the single
\* label "None", whatever flags and magnitudes came with it.
C11_NoneSelectedScoresZero ==
    \A r \in ReqIds :
        (Saved(r) /\ req[r].data[1].none)
        => /\ StoredBy(r).intensity = 0
           /\ StoredBy(r).defect_values = EmptyValues
           /\ StoredBy(r).pvi_raw = 0
           /\ StoredBy(r).absolute_pvi = 0
           /\ StoredBy(r).observations = <<"None">>

\* C11 witness: a submission with the "none" flag, a defect flag and a
\* magnitude has been stored under a configuration that scores that flag.
C11_Witness ==
    \E r \in ReqIds :
        /\ Saved(r)
        /\ req[r].data[1].none
        /\ req[r].data[1].defects # <<>>
        /\ DOMAIN req[r].data[1].defectValues # {}
        /\ config = ConfigA
        /\ StoredBy(r).observations = <<"None">>

\* The observations stored for any premise.
StoredObservations ==
    UNION {Elems(store[p].observations) : p \in DOMAIN store}

\* policyMax of a configuration, in hundredths.
PolicyMax(cfg) ==
    SumSet(DOMAIN cfg.weights,
           [k \in DOMAIN cfg.weights |->
               cfg.weights[k].max_policy * cfg.weights[k].weight])

\* C12: every observation stored by save_observation or recalculate_all has
\* absolute_pvi = round(pvi_raw / policyMax * 100, 2), and 0 when policyMax
\* <= 0; weight 50, max_policy 1000 and magnitude 500 give pvi_raw 250.0 and
\* absolute_pvi 50.0.
C12_AbsolutePvi ==
    \A obs \in StoredObservations :
        /\ obs.absolute_pvi =
               (IF PolicyMax(config) > 0
                THEN RoundDiv(obs.pvi_raw * 10000, PolicyMax(config))
                ELSE 0)
        /\ (config = ConfigA /\ ValueOf(obs.defect_values, "got") = 500)
           => (obs.pvi_raw = 25000 /\ obs.absolute_pvi = 5000)

\* C12 witness: under weight 50 and max_policy 1000 an observation with
\* magnitude 500 has been stored and then re-scored by a complete run of
\* recalculate_all.
C12_Witness ==
    /\ config = ConfigA
    /\ PolicyMax(config) = 50000
    /\ job.pc = "done" /\ job.resp = "success"
    /\ \E obs \in StoredObservations :
           /\ ValueOf(obs.defect_values, "got") = 500
           /\ obs.pvi_raw = 25000
           /\ obs.absolute_pvi = 5000

\* The sum of magnitude * weight / 100 over the keys of the configuration's
\* weights, the terms with weight <= 0 or magnitude <= 0 left out (in
\* hundredths).
SkippingSum(values, cfg) ==
    SumSet({k \in DOMAIN cfg.weights :
               cfg.weights[k].weight > 0 /\ ValueOf(values, k) > 0},
           [k \in DOMAIN cfg.weights |->
               ValueOf(values, k) * cfg.weights[k].weight])

\* C13: the pvi_raw stored for an observation, by save_observation or by
\* recalculate_all, is the sum of magnitude * weight / 100 without the terms
\* whose weight or magnitude is <= 0, and is never negative.
C13_PviRawSkipsNonPositive ==
    \A obs \in StoredObservations :
        /\ obs.pvi_raw = SkippingSum(obs.defect_values, config)
        /\ obs.pvi_raw >= 0

\* The parameters an observation's labels say were selected.
SelectedIn(obs, cfg) ==
    {k \in DOMAIN ParametersOf(cfg) :
        ParametersOf(cfg)[k].label \in Elems(obs.observations)}

\* C14: the intensity stored for an observation is the sum of the
\* configured intensities of the defects selected in it, with or without a
\* magnitude; a key that is not recognized adds nothing.
C14_IntensityOfSelectedDefects ==
    \A obs \in StoredObservations :
        obs.intensity =
            SumSet(SelectedIn(obs, config),
                   [k \in DOMAIN ParametersOf(config) |->
                       ParametersOf(config)[k].intensity])

\* C19: with the configuration unchanged, a complete recalculate_all leaves
\* every observation's intensity, pvi_raw and absolute_pvi as it found them.
C19_RecalcSameAsSubmission ==
    (job.pc = "done" /\ job.resp = "success")
    => \A p \in DOMAIN job.fetched :
           /\ p \in DOMAIN store
           /\ \A f \in {"intensity", "pvi_raw", "absolute_pvi"} :
                  Column(store[p].observations, f)
                      = Column(job.fetched[p].observations, f)

\* round(average_intensity * non_conformance / 100 + pvi * Pvi / 100, 2)
Blend(average_intensity, pvi, cfg) ==
    RoundDiv(average_intensity * cfg.violation.non_conformance
             + pvi * cfg.violation.Pvi, 100)

\* The two rates of a stored row follow the blend formula under cfg.
RatesConsistent(row, cfg) ==
    /\ row.violation_rate =
           Blend(row.average_intensity, row.average_absolute_pvi, cfg)
    /\ row.relative_violation_rate =
           Blend(row.average_intensity, row.relative_pvi, cfg)

\* C15: a premise written by save_observation or recalculate_all has
\* violation_rate = round(average_intensity * non_conformance / 100 +
\* average_absolute_pvi * Pvi / 100, 2) and relative_violation_rate = the
\* same formula over its stored relative_pvi.
C15_ViolationRates ==
    /\ \A r \in ReqIds :
           Saved(r)
           => /\ req[r].data[1].premiseId \in DOMAIN store
              /\ RatesConsistent(store[req[r].data[1].premiseId], config)
    /\ (job.pc = "done" /\ job.resp = "success")
       => \A p \in job.persisted \cap DOMAIN store :
              RatesConsistent(store[p], job.cfg)

\* C16: whatever the configuration file holds (zero policy maximum, zero
\* cohort maximum, unrecognised defect key, missing sections), with every
\* store call succeeding save_observation and recalculate_all never end in
\* an unhandled error: no request is answered with HTTP 500.
C16_MalformedConfigNeverRaises ==
    /\ \A r \in ReqIds : req[r].pc = "done" => req[r].resp # "500"
    /\ job.pc = "done" => job.resp # "500"

\* C20: when requests for one premise never overlap and no store call
\* fails, every successful save_observation leaves the premise's stored
\* history equal to the history stored when the request arrived plus the
\* one new observation, whatever requests for other premises ran beside it.
C20_DifferentPremisesIndependent ==
    \A r \in ReqIds :
        Saved(r)
        => LET id == req[r].data[1].premiseId
               earlier == HistoryBefore(r)
           IN  /\ id \in DOMAIN store
               /\ Len(store[id].observations) = Len(earlier) + 1
               /\ SubSeq(store[id].observations, 1, Len(earlier)) = earlier

\* The raw inputs of an observation.
RawInputs(obs) ==
    [date |-> obs.date, observations |-> obs.observations,
     defect_values |-> obs.defect_values]

\* The step is a whole recalculate_all request.
RecalculateStep == ops' = ops + 1 /\ job'.pc = "done"

\* C21: no request changes the date, labels or defect_values of an
\* observation already in the premise store, and only recalculate_all
\* changes its intensity, pvi_raw or absolute_pvi: after a save_observation
\* every observation stored before it, of any premise, is the same record.
C21_StoredObservationImmutable ==
    [][\A p \in DOMAIN store \cap DOMAIN store' :
         \A i \in 1..Min2(Len(store[p].observations),
                          Len(store'[p].observations)) :
            /\ RawInputs(store'[p].observations[i])
                   = RawInputs(store[p].observations[i])
            /\ ~RecalculateStep
               => store'[p].observations[i] = store[p].observations[i]]_vars

\* The rows of a run re-scored from what it fetched, all with one
\* configuration.
RescoredWith(fetched, cfg) ==
    LET first == [q \in DOMAIN fetched |-> FirstPass(fetched[q], cfg)]
    IN  [q \in DOMAIN fetched |-> SecondPass(first[q], GlobalMax(first), cfg)]

\* C22: every row a recalculate_all run writes carries the values computed
\* from the rows the run fetched and the configuration read when the run
\* started, also when save_parameters replaced the configuration file while
\* the run was going on.
C22_RecalcConfigSnapshot ==
    [][(job.pc = "persist" /\ job'.persisted # job.persisted)
       => LET id == Head(job.queue)
          IN  /\ job'.cfg = job.cfg
              /\ id \in DOMAIN store'
              /\ Derived(store'[id])
                     = Derived(RescoredWith(job.fetched, job.cfg)[id])]_vars

\* C22 witness: a run ended with success, a save_parameters request that
\* arrived during the run changed the configuration file, and the run wrote
\* a premise that has an observation.
C22_Witness ==
    /\ job.pc = "done" /\ job.resp = "success"
    /\ param.pc = "done" /\ param.resp = "success"
    /\ config # job.cfg
    /\ \E q \in job.persisted :
           q \in DOMAIN store /\ Len(store[q].observations) > 0

\* v is a non-negative integer, the whole part of the submitted number.
WholePartOf(v, raw) ==
    /\ v \in Nat
    /\ raw.numeric
    /\ 10 * v <= raw.tenths
    /\ raw.tenths < 10 * v + 10

\* C23: the configuration file holds non-negative integers for every
\* intensity, weight and max_policy and integers in [0,100] for both blend
\* values, and after a successful save_parameters each of them is the whole
\* part of the number that was submitted.
C23_PersistedConfigurationCoerced ==
    /\ \A k \in DOMAIN config.parameters : config.parameters[k].intensity \in Nat
    /\ \A k \in DOMAIN config.weights :
           config.weights[k].weight \in Nat /\ config.weights[k].max_policy \in Nat
    /\ config.violation.non_conformance \in 0..100
    /\ config.violation.Pvi \in 0..100
    /\ (param.pc = "done" /\ param.resp = "success")
       => LET data == param.data[1]
          IN  /\ DOMAIN config.parameters = DOMAIN data.parameters
              /\ DOMAIN config.weights = DOMAIN data.weights
              /\ \A k \in DOMAIN config.parameters :
                     WholePartOf(config.parameters[k].intensity,
                                 data.parameters[k].intensity)
              /\ \A k \in DOMAIN config.weights :
                     /\ WholePartOf(config.weights[k].weight, data.weights[k].weight)
                     /\ WholePartOf(config.weights[k].max_policy,
                                    data.weights[k].max_policy)
              /\ WholePartOf(config.violation.non_conformance,
                             data.violation.non_conformance)
              /\ WholePartOf(config.violation.Pvi, data.violation.Pvi)

\* C23 witness: a successful save_parameters whose body carried a weight
\* with a decimal part, after another successful save_parameters.
C23_Witness ==
    /\ param.pc = "done" /\ param.resp = "success"
    /\ param.data[1].weights.got.weight.tenths % 10 # 0
    /\ param.before[1] # ConfigA

\* The largest stored total pvi_raw, 0 for a table of zeros.
StoredMaximum == MaxOf({0} \cup {store[p].total_pvi_raw : p \in DOMAIN store})

\* C24: after a recalculate_all that returned success, every stored premise
\* has relative_pvi = round(total_pvi_raw / the largest total_pvi_raw of the
\* whole table * 100, 2), and 0 when that largest total is 0.
C24_RecalcGlobalCohort ==
    (job.pc = "done" /\ job.resp = "success")
    => \A p \in DOMAIN store :
           store[p].relative_pvi =
               IF StoredMaximum > 0
               THEN RoundDiv(store[p].total_pvi_raw * 10000, StoredMaximum)
               ELSE 0

\* C24 witness: the run ended over a table where the top premise is not
\* the first one and an earlier premise with an observation has a smaller
\* total.
C24_Witness ==
    /\ job.pc = "done" /\ job.resp = "success"
    /\ \E p, q \in DOMAIN store :
           /\ store[p].total_pvi_raw > store[q].total_pvi_raw
           /\ store[p].relative_pvi = 10000
           /\ Len(store[q].observations) > 0
           /\ p > q

\* The labels of the parameters a configuration has.
LabelsOf(cfg) == {ParametersOf(cfg)[k].label : k \in DOMAIN ParametersOf(cfg)}

\* C25: the observation save_observation stores carries labels of
\* parameters of the configuration only (or the single label "None"), its
\* defect_values has keys of config.weights only, and every magnitude is a
\* non-negative integer.
C25_NormalisedObservation ==
    \A r \in ReqIds :
        Saved(r)
        => /\ Elems(StoredBy(r).observations) \subseteq LabelsOf(config) \cup {"None"}
           /\ DOMAIN StoredBy(r).defect_values \subseteq DOMAIN config.weights
           /\ \A k \in DOMAIN StoredBy(r).defect_values :
                  StoredBy(r).defect_values[k] \in Nat

\* C26: between requests, every premise in the copy that save_observation
\* would load from the local premises file is there as the store holds it.
C26_FileSyncedWithStore ==
    \A p \in DOMAIN LoadPremises(TRUE) :
        RowOf(store, p) = <<LoadPremises(TRUE)[p]>>

\* C27: after a successful save_observation the premise belongs to the
\* cohort its district filter selects, its stored relative_pvi is its total
\* pvi_raw over a cohort maximum that is at least that total, and its
\* relative_violation_rate is blended from that relative_pvi.
C27_RelativePviRecomputed ==
    \A r \in ReqIds :
        Saved(r)
        => LET id == req[r].data[1].premiseId
               row == store[id]
           IN  /\ id \in RelativeSet(store, req[r].data[1].district)
               /\ \E m \in {row.total_pvi_raw, 100}
                        \cup {store[p].total_pvi_raw : p \in DOMAIN store} :
                      /\ m >= row.total_pvi_raw
                      /\ row.relative_pvi = RelativePvi(row.total_pvi_raw, m)
               /\ row.relative_violation_rate =
                      Blend(row.average_intensity, row.relative_pvi, config)

\* The request turned away with 403 left the premise store, the local
\* premises file and the configuration file as they were.
Denied(resp) ==
    /\ resp = "403"
    /\ store' = store
    /\ file' = file
    /\ config' = config

\* C28: a save_observation request from a session without a role, and a
\* recalculate_all or save_parameters request from a session whose role is
\* not admin, is answered 403 and changes neither the premise store nor the
\* local premises file nor the configuration file.
C28_AccessControl ==
    [][ops' = ops + 1
       => /\ \A r \in ReqIds :
                 (req'[r].pc = "done" /\ req'[r].data # <<>> /\ req'[r].role = "none")
                 => Denied(req'[r].resp)
          /\ (job'.pc = "done" /\ job'.role \in {"none", "user"})
             => Denied(job'.resp)
          /\ (param'.pc = "done" /\ param'.role # "admin")
             => Denied(param'.resp)]_vars

\* C28 witness: recalculate_all was refused to a logged-in user who is not
\* admin, over a store that holds a scored premise.
C28_Witness ==
    /\ job.pc = "done" /\ job.role = "user" /\ job.resp = "403"
    /\ file.exists
    /\ \E p \in DOMAIN store : store[p].observations # <<>>

\* C29: a summary that is finalized stays finalized whatever request comes
\* next, so it never comes back among the names unfinished_inspections
\* lists.
C29_FinalizedStaysFinalized ==
    [][\A s \in DOMAIN insp.summaries :
          insp.summaries[s].finalized
          => /\ insp'.summaries[s].finalized
             /\ insp'.summaries[s].inspection_name
                    \notin unfinished_inspections(insp'.summaries)]_vars

\* The daily records linked to a summary.
LinkedTo(daily, id) == SelectSeq(daily, LAMBDA d : d.summary_id = id)

\* Sum of a number taken from each record.
SumOver(records, Number(_)) ==
    SumSeq([i \in 1..Len(records) |-> Number(records[i])])

\* What a record reports for a defect key.
Reported(d, k) ==
    IF k \notin DOMAIN d.defects_data THEN 0
    ELSE IF d.defects_data[k].kind = "int" THEN d.defects_data[k].n
    ELSE SumSet(DOMAIN d.defects_data[k].by[1], d.defects_data[k].by[1])

\* C30: a successful save_inspection adds exactly one daily record and
\* leaves its summary with total_premises, total_defects, the three product
\* values and total_charges equal to the sums over all the daily records
\* linked to that summary.
C30_SummaryTotals ==
    [][(ops' = ops + 1 /\ insp'.last.resp = "success")
       => LET id == insp'.last.summary_id
              row == insp'.summaries[id]
              linked == LinkedTo(insp'.daily, id)
          IN  /\ Len(insp'.daily) = Len(insp.daily) + 1
              /\ SubSeq(insp'.daily, 1, Len(insp.daily)) = insp.daily
              /\ insp'.daily[Len(insp'.daily)].summary_id = id
              /\ row.total_premises =
                     SumOver(linked, LAMBDA d : SumSet(DOMAIN d.premises_data,
                                                       d.premises_data))
              /\ \A k \in {"got", "unreg"} :
                     SumOver(linked, LAMBDA d : Reported(d, k))
                         = (IF k \in DOMAIN row.total_defects
                            THEN row.total_defects[k] ELSE 0)
              /\ row.value_got_products =
                     SumOver(linked, LAMBDA d : d.charges_data.got_value)
              /\ row.value_unregistered_products =
                     SumOver(linked, LAMBDA d : d.charges_data.unregistered_value)
              /\ row.value_dldm_not_allowed =
                     SumOver(linked, LAMBDA d : d.charges_data.dldm_value)
              /\ row.total_charges =
                     SumOver(linked, LAMBDA d : d.charges_data.total)]_vars

\* C30 witness: a summary holds three daily records, with counts given as
\* numbers and by category, after a successful request.
C30_Witness ==
    /\ insp.last.resp = "success"
    /\ Len(LinkedTo(insp.daily, insp.last.summary_id)) = 3
    /\ \E i, j \in 1..Len(insp.daily) :
           /\ insp.daily[i].defects_data.got.kind = "int"
           /\ insp.daily[j].defects_data.got.kind = "dict"
           /\ insp.daily[i].summary_id = insp.daily[j].summary_id

====
